---- MODULE Spec2Model ----
(***************************************************************************)
(* Model of src/app.py: the FastAPI front end that launches the bot as a   *)
(* child process, scans its output for the room URL and tracks the child   *)
(* in bot_procs.                                                           *)
(*                                                                         *)
(* Concurrency in the source:                                              *)
(*   - one asyncio event loop serves get_room_url, get_status, the         *)
(*     background cleanup_process tasks and the lifespan shutdown;         *)
(*     run_bot and cleanup_process never suspend, so each handler runs to  *)
(*     completion on the loop and no other handler runs meanwhile;         *)
(*   - run_bot is a blocking wait loop, split here into one action per     *)
(*     iteration because the child processes and their reader threads run  *)
(*     concurrently with it;                                               *)
(*   - per child, one daemon thread per pipe (read_output);                *)
(*   - the child process itself (writes lines, exits).                     *)
(***************************************************************************)
EXTENDS Integers, Sequences, FiniteSets, TLC

\* ---------------------------------------------------------------- bounds
\* Number of children the model lets get_room_url spawn.
MaxWorkers == 2
\* Number of lines the children write to their pipes, all together.
MaxLines == 1
\* Length of the lines the scanners are tried on.
MaxLineLen == 5
\* Number of children spawned in the specifications that follow one child
\* closely (a client recording the status answers; a child writing more lines).
FewWorkers == 1
\* Number of lines the children write in the specification of a child
\* writing more lines.
MoreLines == 2
\* Number of wrong birthdays the user of bot2.py gives.
MaxWrong == 3

Pids == 1..MaxWorkers
Streams == {"STDOUT", "STDERR"}

\* ------------------------------------------------------------ output lines
\* A line is a sequence of tokens.  "M" stands for the text
\* "Join the video call at:", " " for one whitespace character, any other
\* token for one non-blank character ("x": the logger's prefix or other
\* text; the decimal pid: the url the child with that pid announces, as in
\* bot.py line 45).
Marker == "M"

Noise == <<"x">>
MarkerLine(p) == <<"x", " ", Marker, " ", ToString(p)>>
EmptyMarkerLine == <<Marker, " ">>
DoubleMarkerLine(p) == <<Marker, "x", Marker, " ", ToString(p), " ">>

\* What the child with pid p may write.
WorkerLines(p) == {Noise, MarkerLine(p), EmptyMarkerLine}

\* str.strip()
RECURSIVE LStrip(_)
LStrip(s) == IF s # <<>> /\ Head(s) = " " THEN LStrip(Tail(s)) ELSE s
RECURSIVE RStrip(_)
RStrip(s) == IF s # <<>> /\ s[Len(s)] = " " THEN RStrip(SubSeq(s, 1, Len(s) - 1)) ELSE s
Strip(s) == RStrip(LStrip(s))

\* "Join the video call at:" in clean_line
HasMarker(s) == \E i \in 1..Len(s) : s[i] = Marker

\* s.split("Join the video call at:")[-1]
SplitLast(s) ==
    IF HasMarker(s)
    THEN LET i == CHOOSE k \in 1..Len(s) :
                      /\ s[k] = Marker
                      /\ \A j \in (k + 1)..Len(s) : s[j] # Marker
         IN SubSeq(s, i + 1, Len(s))
    ELSE s

\* The url with the second strip() of line 104 left out.
ExtractUrlNoStrip(line) == SplitLast(Strip(line))

\* read_output, lines 99-104: the url taken from one line
ExtractUrl(line) == Strip(SplitLast(Strip(line)))

\* ------------------------------------------------------------------ state
VARIABLES
    bot_procs,    \* the pids registered in the bot_procs dict
    url_queue,    \* the module-level queue.Queue of urls
    nextpid,      \* the pid the next Popen gets
    pstate,       \* per pid: "unborn", "running" or "exited" (proc.poll())
    returncode,   \* per pid: the exit code, meaningful once exited
    written,      \* lines written so far, by all children
    pipe,         \* per pid and stream: lines written and not yet read
    closed,       \* per pid: the parent closed proc.stdout / proc.stderr
    sigs,         \* per pid: the signals sent to it, in order
    pc,           \* where the event loop is: "idle", "run_bot", "wait", "except"
    cur,          \* the pid run_bot is waiting for (0: none)
    expired,      \* time.time() - start_time has reached timeout
    bg,           \* pids with a cleanup_process background task scheduled
    resp,         \* the last response of get_room_url
    outcome,      \* per pid: how run_bot ended for it
    shut,         \* the lifespan shutdown has run
    answered,     \* the last answer of get_status a client recorded
    finished_seen, \* the pids a client was answered "finished" for
    tools,        \* bot2.py: the names of the tools the context offers
    messages,     \* bot2.py: the system prompts given to the context, in order
    user_doc,     \* bot2.py: the fields of the user document in the database
    verified      \* bot2.py: verify_birthday was called with the expected birthday

vars == <<bot_procs, url_queue, nextpid, pstate, returncode, written, pipe,
          closed, sigs, pc, cur, expired, bg, resp, outcome, shut, answered,
          finished_seen, tools, messages, user_doc, verified>>

procvars == <<pstate, returncode, written, pipe>>
loopvars == <<pc, cur, expired>>
\* What a client that records the answers of get_status has seen; not state
\* of the program.
obs == <<answered, finished_seen>>

NoAnswer == [pid |-> 0, status |-> "none"]

\* The state of the intake conversation of bot2.py, a program of its own.
intake == <<tools, messages, user_doc, verified>>

\* bot2.py lines 250-264: the fields save_data writes.
Fields == {"prescriptions", "allergies", "conditions", "visit_reasons"}

\* bot2.py lines 34-61: the context IntakeProcessor.__init__ leaves.
IntakeInit ==
    /\ tools = {"verify_birthday"}
    /\ messages = <<"introduce">>
    /\ user_doc = [f \in Fields |-> "unset"]
    /\ verified = FALSE

NoResp == [status |-> 0, url |-> <<>>, bot_pid |-> 0, detail |-> "", raised |-> "none"]

Init ==
    /\ bot_procs = {}
    /\ url_queue = <<>>
    /\ nextpid = 1
    /\ pstate = [p \in Pids |-> "unborn"]
    /\ returncode = [p \in Pids |-> 0]
    /\ written = 0
    /\ pipe = [p \in Pids |-> [s \in Streams |-> <<>>]]
    /\ closed = [p \in Pids |-> FALSE]
    /\ sigs = [p \in Pids |-> <<>>]
    /\ pc = "idle"
    /\ cur = 0
    /\ expired = FALSE
    /\ bg = {}
    /\ resp = NoResp
    /\ outcome = [p \in Pids |-> "none"]
    /\ shut = FALSE
    /\ answered = NoAnswer
    /\ finished_seen = {}
    /\ IntakeInit

\* Any line a child can write: every text of at most MaxLineLen tokens.
Tokens == {Marker, " ", "x", "1"}
AllLines == UNION {[1..n -> Tokens] : n \in 1..MaxLineLen}

\* A start is waiting for child 1, which has written the same line, any
\* line, to both of its pipes.
InitExtract ==
    /\ bot_procs = {1}
    /\ url_queue = <<>>
    /\ nextpid = 2
    /\ pstate = [p \in Pids |-> IF p = 1 THEN "running" ELSE "unborn"]
    /\ returncode = [p \in Pids |-> 0]
    /\ written = 2
    /\ \E line \in AllLines :
           pipe = [p \in Pids |-> [s \in Streams |-> IF p = 1 THEN <<line>> ELSE <<>>]]
    /\ closed = [p \in Pids |-> FALSE]
    /\ sigs = [p \in Pids |-> <<>>]
    /\ pc = "wait"
    /\ cur = 1
    /\ expired = FALSE
    /\ bg = {}
    /\ resp = NoResp
    /\ outcome = [p \in Pids |-> "none"]
    /\ shut = FALSE
    /\ answered = NoAnswer
    /\ finished_seen = {}
    /\ IntakeInit

\* ------------------------------------------------------- the child process
\* The child writes one line to one of its pipes.
WriteLine(p, s, line) ==
    /\ pstate[p] = "running"
    /\ ~closed[p]
    /\ pipe' = [pipe EXCEPT ![p][s] = Append(@, line)]
    /\ written' = written + 1
    /\ UNCHANGED <<obs, intake, bot_procs, url_queue, nextpid, pstate, returncode, closed,
                   sigs, loopvars, bg, resp, outcome, shut>>

WorkerWrite(p, s, line) ==
    /\ written < MaxLines
    /\ WriteLine(p, s, line)

\* The exit code the child ends with: its own (the source never branches on
\* its value), or death by SIGTERM once one was sent.
ExitCodes(p) == IF sigs[p] = <<>> THEN {1} ELSE {-15}

\* The child exits (by itself, or because of a signal it was sent).
WorkerExit(p, code) ==
    /\ pstate[p] = "running"
    /\ code \in ExitCodes(p)
    /\ pstate' = [pstate EXCEPT ![p] = "exited"]
    /\ returncode' = [returncode EXCEPT ![p] = code]
    /\ UNCHANGED <<obs, intake, bot_procs, url_queue, nextpid, written, pipe, closed, sigs,
                   loopvars, bg, resp, outcome, shut>>

\* ------------------------------------------------- read_output (one thread)
\* Variation: the `if` of line 103 left out, every line gives a put.
QueueAfterAnyLine(q, line) == Append(q, ExtractUrl(line))

\* The queue after the loop body ran on one line, lines 99-106: every line
\* holding the marker puts its url.
QueueAfterLine(q, line) ==
    IF HasMarker(Strip(line)) THEN Append(q, ExtractUrl(line)) ELSE q

\* One iteration of `for line in pipe`, lines 98-106.
read_output(p, s) ==
    /\ pstate[p] # "unborn"
    /\ ~closed[p]
    /\ pipe[p][s] # <<>>
    /\ url_queue' = QueueAfterLine(url_queue, Head(pipe[p][s]))
    /\ pipe' = [pipe EXCEPT ![p][s] = Tail(@)]
    /\ UNCHANGED <<obs, intake, bot_procs, nextpid, pstate, returncode, written, closed, sigs,
                   loopvars, bg, resp, outcome, shut>>

\* The loop has ended: end of input (child exited, pipe drained) or the
\* read raises because the parent closed the file (lines 107-108).
ThreadDone(p, s) ==
    /\ pstate[p] # "unborn"
    /\ \/ closed[p]
       \/ pstate[p] = "exited" /\ pipe[p][s] = <<>>

\* -------------------------------------------------------------- responses
FailDetail == "500: Failed to generate room URL"

\* get_room_url, lines 212-232, on what run_bot returned.  run_bot returns
\* (None, None) for every exception it caught (lines 143-147), so the
\* TimeoutError branch of get_room_url is never taken; `raised` records the
\* exception run_bot caught and is not part of what the caller receives.
Response(url, pid, raised) ==
    IF url # <<>> /\ pid # 0
    THEN [status |-> 200, url |-> url, bot_pid |-> pid, detail |-> "",
          raised |-> raised]
    ELSE [status |-> 500, url |-> <<>>, bot_pid |-> 0, detail |-> FailDetail,
          raised |-> raised]

\* ----------------------------------------------------------------- signals
\* Popen.send_signal: polls first and signals only a child that has not
\* exited.
SendSignal(sg, p, sig) ==
    IF pstate[p] = "running" THEN [sg EXCEPT ![p] = Append(@, sig)] ELSE sg

\* Variation: the handler yields to the event loop while it waits.
LoopYields == TRUE

\* Lines 201-210: get_room_url is a coroutine of the one event loop and does
\* not await before it returns; it starts only when the loop runs nothing.
LoopIsFree == pc = "idle"

\* ------------------------------------------------------------ get_room_url
\* Lines 205-210: the queue is emptied and run_bot is called.
GetRoomUrl ==
    /\ LoopIsFree /\ ~shut
    /\ url_queue' = <<>>
    /\ pc' = "run_bot"
    /\ UNCHANGED <<obs, intake, bot_procs, nextpid, procvars, closed, sigs, cur, expired, bg,
                   resp, outcome, shut>>

\* Variation: the handle is entered in the registry before the launch is
\* known to have succeeded.
RegistryAfterFailedSpawnLeak == bot_procs \cup {nextpid}

\* The registry after a start that failed before line 93 was reached.
RegistryAfterFailedSpawn == bot_procs

\* run_bot lines 67-69 and 143-147: a required variable is missing.
RunBotMissingEnv ==
    /\ pc = "run_bot"
    /\ bot_procs' = RegistryAfterFailedSpawn
    /\ resp' = Response(<<>>, 0, "ValueError")
    /\ pc' = "idle"
    /\ UNCHANGED <<obs, intake, url_queue, nextpid, procvars, closed, sigs, cur, expired, bg,
                   outcome, shut>>

\* run_bot lines 81-90 and 143-147: Popen raises.
RunBotSpawnFail ==
    /\ pc = "run_bot"
    /\ bot_procs' = RegistryAfterFailedSpawn
    /\ resp' = Response(<<>>, 0, "OSError")
    /\ pc' = "idle"
    /\ UNCHANGED <<obs, intake, url_queue, nextpid, procvars, closed, sigs, cur, expired, bg,
                   outcome, shut>>

\* run_bot lines 81-116: the child is started and registered, its two reader
\* threads are started and the wait loop is entered.
RunBotSpawn ==
    /\ pc = "run_bot"
    /\ nextpid <= MaxWorkers
    /\ pstate' = [pstate EXCEPT ![nextpid] = "running"]
    /\ bot_procs' = bot_procs \cup {nextpid}
    /\ pc' = "wait"
    /\ cur' = nextpid
    /\ expired' = FALSE
    /\ nextpid' = nextpid + 1
    /\ UNCHANGED <<obs, intake, url_queue, returncode, written, pipe, closed, sigs, bg, resp,
                   outcome, shut>>

\* Variation: the entry of a child found exited is dropped by run_bot.
RegistryAfterExitDropped(p) == bot_procs \ {p}

\* Lines 120-127 and 143-147: nothing on the path of the observed exit
\* touches bot_procs.
RegistryAfterExit(p) == bot_procs

\* Lines 120-127 and 143-147: the child has exited; communicate() drains and
\* closes both pipes, RuntimeError is raised and caught, run_bot returns
\* (None, None).
WaitExit ==
    /\ pc = "wait" /\ ~expired
    /\ pstate[cur] = "exited"
    /\ bot_procs' = RegistryAfterExit(cur)
    /\ pipe' = [pipe EXCEPT ![cur] = [s \in Streams |-> <<>>]]
    /\ closed' = [closed EXCEPT ![cur] = TRUE]
    /\ outcome' = [outcome EXCEPT ![cur] = "exit"]
    /\ resp' = Response(<<>>, 0, "RuntimeError")
    /\ pc' = "idle" /\ cur' = 0
    /\ UNCHANGED <<obs, intake, url_queue, nextpid, pstate, returncode, written,
                   sigs, expired, bg, shut>>

\* get_room_url, lines 212-214: the cleanup task is scheduled for a
\* successful start.
BgAfter(url, pid) == IF url # <<>> /\ pid # 0 THEN bg \cup {pid} ELSE bg

\* Variation: the wait loop is not left once the url was taken.
PcAfterUrlStays == "wait"

\* Where the event loop is after the url was taken: run_bot has returned
\* (line 133) and get_room_url has answered.
PcAfterUrl == "idle"

\* Lines 130-133 and 212-225: a url is in the queue; run_bot returns
\* (url, pid).
WaitGotUrl ==
    /\ pc = "wait" /\ ~expired
    /\ pstate[cur] = "running"
    /\ url_queue # <<>>
    /\ url_queue' = Tail(url_queue)
    /\ outcome' = [outcome EXCEPT ![cur] = "resolved"]
    /\ resp' = Response(Head(url_queue), cur, "none")
    /\ bg' = BgAfter(Head(url_queue), cur)
    /\ pc' = PcAfterUrl
    /\ cur' = IF PcAfterUrl = "idle" THEN 0 ELSE cur
    /\ UNCHANGED <<obs, intake, bot_procs, nextpid, procvars, closed, sigs, expired, shut>>

\* Variation: the loop condition of line 118 never fails.
ExpiredNever(late) == FALSE

\* Line 118, `time.time() - start_time < timeout`, after a sleep: `late`
\* says whether the 25 seconds have passed.
ExpiredAfterSleep(late) == late

\* Lines 134-136 and 118: nothing yet, sleep one check interval; after it
\* the timeout has been reached or not.
WaitSleep(late) ==
    /\ pc = "wait" /\ ~expired
    /\ pstate[cur] = "running"
    /\ url_queue = <<>>
    /\ expired' = ExpiredAfterSleep(late)
    /\ UNCHANGED <<obs, intake, bot_procs, url_queue, nextpid, procvars, closed, sigs, pc,
                   cur, bg, resp, outcome, shut>>

\* Lines 138-141: the loop condition fails; terminate() and raise
\* TimeoutError.
WaitTimeout ==
    /\ pc = "wait" /\ expired
    /\ sigs' = SendSignal(sigs, cur, "term")
    /\ pc' = "except"
    /\ UNCHANGED <<obs, intake, bot_procs, url_queue, nextpid, procvars, closed, cur, expired,
                   bg, resp, outcome, shut>>

\* Lines 143-147 after the TimeoutError: terminate() again if the child has
\* not exited yet, return (None, None); get_room_url answers 500.
ExceptReturn ==
    /\ pc = "except"
    /\ sigs' = SendSignal(sigs, cur, "term")
    /\ outcome' = [outcome EXCEPT ![cur] = "timeout"]
    /\ resp' = Response(<<>>, 0, "TimeoutError")
    /\ pc' = "idle" /\ cur' = 0
    /\ UNCHANGED <<obs, intake, bot_procs, url_queue, nextpid, procvars, closed, expired, bg,
                   shut>>

\* --------------------------------------------------------- cleanup_process
\* Lines 155-161: terminate(); wait(timeout=5); on TimeoutExpired kill() and
\* wait().  `obey` says whether the child exits within the five seconds.
CleanupSignals(obey) == IF obey THEN <<"term">> ELSE <<"term", "kill">>

\* Variation: the signals are sent without looking at whether the child has
\* exited.
SigsAfterCleanupBlind(p, obey) == sigs[p] \o CleanupSignals(obey)

\* The signals sent once cleanup_process(p) has run on a registered child:
\* terminate() and kill() signal only a child that has not exited.
SigsAfterCleanup(p, obey) ==
    IF pstate[p] = "running" THEN sigs[p] \o CleanupSignals(obey) ELSE sigs[p]

\* Variation: no kill and no second wait after the five seconds.
StateAfterCleanupNoKill(p, obey) == IF obey THEN "exited" ELSE pstate[p]

\* proc.wait() (line 157 or 161) returns only once the child has exited.
StateAfterCleanup(p, obey) == "exited"

CodeAfterCleanup(p, obey) ==
    IF pstate[p] = "running" THEN (IF obey THEN -15 ELSE -9) ELSE returncode[p]

\* cleanup_process for every pid of S, lines 151-168: pop the entry; nothing
\* happens for a pid that is not registered.
CleanupProcs(S, obeys) ==
    LET T == S \cap bot_procs IN
    /\ bot_procs' = bot_procs \ T
    /\ sigs' = [p \in Pids |-> IF p \in T THEN SigsAfterCleanup(p, p \in obeys)
                                           ELSE sigs[p]]
    /\ pstate' = [p \in Pids |-> IF p \in T THEN StateAfterCleanup(p, p \in obeys)
                                             ELSE pstate[p]]
    /\ returncode' = [p \in Pids |-> IF p \in T THEN CodeAfterCleanup(p, p \in obeys)
                                                 ELSE returncode[p]]
    /\ closed' = [p \in Pids |-> closed[p] \/ p \in T]
    /\ pipe' = [p \in Pids |-> IF p \in T THEN [s \in Streams |-> <<>>] ELSE pipe[p]]

cleanup_process(p, obey) == CleanupProcs({p}, IF obey THEN {p} ELSE {})

\* The background task get_room_url scheduled (line 214) runs.
RunBackground(p, obey) ==
    /\ pc = "idle" /\ ~shut
    /\ p \in bg
    /\ cleanup_process(p, obey)
    /\ bg' = bg \ {p}
    /\ UNCHANGED <<obs, intake, url_queue, nextpid, written, loopvars, resp, outcome, shut>>

\* -------------------------------------------------------------- get_status
\* The answer with the registry lookup of line 238 left out.
StatusOfNoLookup(p) ==
    IF pstate[p] = "running" THEN "running" ELSE "finished"

\* The answer with the poll() of line 243 left out.
StatusOfNoPoll(p) ==
    IF p \notin bot_procs THEN "404" ELSE "running"

\* The answer when an entry that was removed is still taken for a live one.
StatusOfStale(p) ==
    IF p \notin bot_procs
    THEN IF pstate[p] = "unborn" THEN "404" ELSE "running"
    ELSE IF pstate[p] = "running" THEN "running" ELSE "finished"

\* Lines 238-253: the answer.
StatusOf(p) ==
    IF p \notin bot_procs THEN "404"
    ELSE IF pstate[p] = "running" THEN "running" ELSE "finished"

\* Lines 238-253: a finished child is cleaned up.
StatusEffect(p) ==
    /\ pc = "idle" /\ ~shut
    /\ IF StatusOf(p) = "finished"
       THEN cleanup_process(p, TRUE)
       ELSE UNCHANGED <<bot_procs, sigs, pstate, returncode, closed, pipe>>
    /\ UNCHANGED <<intake, url_queue, nextpid, written, loopvars, bg, resp, outcome,
                   shut>>

get_status(p) ==
    /\ StatusEffect(p)
    /\ UNCHANGED obs

\* The same handler, with a client that writes down the answer it receives
\* (the "status" field of lines 243-253, or the 404 of line 239).
QueryStatus(p) ==
    /\ StatusEffect(p)
    /\ answered' = [pid |-> p, status |-> StatusOf(p)]
    /\ finished_seen' = IF StatusOf(p) = "finished" THEN finished_seen \cup {p}
                                                   ELSE finished_seen

\* ------------------------------------------------------- lifespan shutdown
\* Variation: the shutdown runs on a thread of its own, at any time.
ShutdownAnyTime == TRUE

\* Lines 175-180: the lifespan runs `await cleanup()` on the event loop, which
\* a start occupies from its first line to its return (lines 204-225).
ShutdownMayRun == pc = "idle"

\* Lines 170-180: cleanup_process for every registered pid.
cleanup(obeys) ==
    /\ ShutdownMayRun /\ ~shut
    /\ obeys \subseteq bot_procs
    /\ CleanupProcs(bot_procs, obeys)
    /\ shut' = TRUE
    /\ UNCHANGED <<obs, intake, url_queue, nextpid, written, loopvars, bg, resp, outcome>>

\* ------------------------------------------------- bot2.py, IntakeProcessor
\* Everything of app.py, which the conversation does not touch.
appvars == <<bot_procs, url_queue, nextpid, procvars, closed, sigs, loopvars, bg,
             resp, outcome, shut, obs>>

\* The birthdays the language model may pass, and the lists it may pass to the
\* list_ functions.
Birthdays == {"1990-01-01", "1991-02-02"}
Values == {"a", "b"}

\* Variation: the birthday is not compared.
BirthdayAny(b) == TRUE

\* bot2.py line 66.
BirthdayOk(b) == b = "1990-01-01"

\* bot2.py lines 63-120.  The language model calls a tool the context offers;
\* the prompt of result_callback goes into the context.
verify_birthday(b) ==
    /\ "verify_birthday" \in tools
    /\ BirthdayOk(b) \/ Len(messages) <= MaxWrong
    /\ IF BirthdayOk(b)
       THEN /\ tools' = {"list_prescriptions"}
            /\ messages' = Append(messages, "ask_prescriptions")
       ELSE /\ tools' = tools
            /\ messages' = Append(messages, "ask_birthday_again")
    /\ verified' = (verified \/ b = "1990-01-01")
    /\ UNCHANGED <<user_doc, appvars>>

\* bot2.py lines 122-161, 163-200, 202-239, 241-248: the start callbacks.
start_prescriptions ==
    /\ tools' = {"list_allergies"}
    /\ messages' = Append(messages, "ask_allergies")

start_allergies ==
    /\ tools' = {"list_conditions"}
    /\ messages' = Append(messages, "ask_conditions")

start_conditions ==
    /\ tools' = {"list_visit_reasons"}
    /\ messages' = Append(messages, "ask_visit_reasons")

start_visit_reasons ==
    /\ tools' = {}
    /\ messages' = Append(messages, "end_conversation")

\* bot2.py lines 250-267.
save_data(function_name, v) ==
    user_doc' = [user_doc EXCEPT ![
        CASE function_name = "list_prescriptions" -> "prescriptions"
          [] function_name = "list_allergies" -> "allergies"
          [] function_name = "list_conditions" -> "conditions"
          [] function_name = "list_visit_reasons" -> "visit_reasons"] = v]

\* bot2.py lines 314-334: a call of a registered function runs its start
\* callback and then save_data.  The language model calls a tool the context
\* offers.
list_prescriptions(v) ==
    /\ "list_prescriptions" \in tools
    /\ start_prescriptions
    /\ save_data("list_prescriptions", v)
    /\ UNCHANGED <<verified, appvars>>

list_allergies(v) ==
    /\ "list_allergies" \in tools
    /\ start_allergies
    /\ save_data("list_allergies", v)
    /\ UNCHANGED <<verified, appvars>>

list_conditions(v) ==
    /\ "list_conditions" \in tools
    /\ start_conditions
    /\ save_data("list_conditions", v)
    /\ UNCHANGED <<verified, appvars>>

list_visit_reasons(v) ==
    /\ "list_visit_reasons" \in tools
    /\ start_visit_reasons
    /\ save_data("list_visit_reasons", v)
    /\ UNCHANGED <<verified, appvars>>

NextIntake ==
    \/ \E b \in Birthdays : verify_birthday(b)
    \/ \E v \in Values : list_prescriptions(v)
    \/ \E v \in Values : list_allergies(v)
    \/ \E v \in Values : list_conditions(v)
    \/ \E v \in Values : list_visit_reasons(v)

SpecIntake == Init /\ [][NextIntake]_vars

\* ------------------------------------------------------------ specification
Next ==
    \/ \E p \in Pids, s \in Streams : \E line \in WorkerLines(p) : WorkerWrite(p, s, line)
    \/ \E p \in Pids : \E code \in ExitCodes(p) : WorkerExit(p, code)
    \/ \E p \in Pids, s \in Streams : read_output(p, s)
    \/ GetRoomUrl
    \/ RunBotMissingEnv
    \/ RunBotSpawnFail
    \/ RunBotSpawn
    \/ WaitExit
    \/ WaitGotUrl
    \/ \E late \in BOOLEAN : WaitSleep(late)
    \/ WaitTimeout
    \/ ExceptReturn
    \/ \E p \in Pids, obey \in BOOLEAN : RunBackground(p, obey)
    \/ \E p \in Pids : get_status(p)
    \/ \E obeys \in SUBSET Pids : cleanup(obeys)

Spec == Init /\ [][Next]_vars

\* The same program observed by a client that records the status answers,
\* with at most FewWorkers children spawned.
NextStatus ==
    \/ \E p \in Pids, s \in Streams : \E line \in WorkerLines(p) : WorkerWrite(p, s, line)
    \/ \E p \in Pids : \E code \in ExitCodes(p) : WorkerExit(p, code)
    \/ \E p \in Pids, s \in Streams : read_output(p, s)
    \/ GetRoomUrl
    \/ RunBotMissingEnv
    \/ RunBotSpawnFail
    \/ nextpid <= FewWorkers /\ RunBotSpawn
    \/ WaitExit
    \/ WaitGotUrl
    \/ \E late \in BOOLEAN : WaitSleep(late)
    \/ WaitTimeout
    \/ ExceptReturn
    \/ \E p \in Pids, obey \in BOOLEAN : RunBackground(p, obey)
    \/ \E p \in Pids : QueryStatus(p)
    \/ \E obeys \in SUBSET Pids : cleanup(obeys)

SpecStatus == Init /\ [][NextStatus]_vars

\* A step of the thread that runs run_bot, with the clock past the 25
\* seconds after a sleep.
RunBotStep ==
    \/ RunBotMissingEnv
    \/ RunBotSpawnFail
    \/ RunBotSpawn
    \/ WaitExit
    \/ WaitGotUrl
    \/ WaitSleep(TRUE)
    \/ WaitTimeout
    \/ ExceptReturn

\* The thread that runs run_bot keeps running and time advances: the wait
\* loop is not suspended forever, and its sleeps do not stay short of the
\* timeout forever.  Nothing is assumed of the children or of the requests.
SpecFair == SpecStatus /\ WF_vars(RunBotStep)

\* The same program with at most FewWorkers children spawned, which write up
\* to MoreLines lines.
NextLines ==
    \/ \E p \in Pids, s \in Streams : \E line \in WorkerLines(p) :
            written < MoreLines /\ WriteLine(p, s, line)
    \/ \E p \in Pids : \E code \in ExitCodes(p) : WorkerExit(p, code)
    \/ \E p \in Pids, s \in Streams : read_output(p, s)
    \/ GetRoomUrl
    \/ RunBotMissingEnv
    \/ RunBotSpawnFail
    \/ nextpid <= FewWorkers /\ RunBotSpawn
    \/ WaitExit
    \/ WaitGotUrl
    \/ \E late \in BOOLEAN : WaitSleep(late)
    \/ WaitTimeout
    \/ ExceptReturn
    \/ \E p \in Pids, obey \in BOOLEAN : RunBackground(p, obey)
    \/ \E p \in Pids : get_status(p)
    \/ \E obeys \in SUBSET Pids : cleanup(obeys)

SpecLines == Init /\ [][NextLines]_vars

\* The two scanner threads alone, on any line.
NextExtract == \E p \in Pids, s \in Streams : read_output(p, s)

SpecExtract == InitExtract /\ [][NextExtract]_vars

\* ------------------------------------------------------------------ claims
Spawned(p) == pstate[p] # "unborn"

\* The registered children that are running.
RunningRegistered == {p \in bot_procs : pstate[p] = "running"}

\* The child ended by itself: it exited and no signal ended it.
ExitedByItself(p) == pstate[p] = "exited" /\ returncode[p] >= 0

\* What the caller of get_room_url receives.
Visible(r) == [status |-> r.status, url |-> r.url, bot_pid |-> r.bot_pid,
               detail |-> r.detail]

\* C1: admission bound.  With a limit of one worker per resource key (every
\* start of the model uses the same key), the registered workers that are
\* running at the same time never number more than one.
C1_AdmissionBound == Cardinality(RunningRegistered) <= 1

\* C2: exclusivity of resolution.  A worker has no outcome while its start
\* is still running and exactly one of resolved / exit / timeout once the
\* start has returned; an "exit" outcome means the exit was observed; and no
\* later step (marker found, process exit, timeout, any handler) changes an
\* outcome once it is set.
C2_OutcomeShape ==
    \A p \in Pids :
        /\ outcome[p] \in {"none", "resolved", "exit", "timeout"}
        /\ (outcome[p] = "none") <=> (~Spawned(p) \/ cur = p)
        /\ outcome[p] = "exit" => pstate[p] = "exited"

C2_ExclusiveOutcome ==
    /\ []C2_OutcomeShape
    /\ [][\A p \in Pids : outcome[p] # "none" => outcome'[p] = outcome[p]]_vars

\* C2 witness: a start ended by timeout, and afterwards a marker line of a
\* child was still found and the child exited: all three events happened
\* and the outcome is the first one.
C2_Witness ==
    \E p \in Pids :
        /\ outcome[p] = "timeout"
        /\ pstate[p] = "exited"
        /\ url_queue # <<>>

\* C3: no leak on timeout.  Once a start has ended with the timeout outcome,
\* its worker process has exited.
C3_NoLeakOnTimeout ==
    \A p \in Pids : outcome[p] = "timeout" => pstate[p] = "exited"

\* C4: no orphaned process.  A worker whose entry cleanup_process removed
\* from the registry has exited; after cleanup() the registry is empty and
\* no worker is running.
C4_NoOrphan ==
    /\ \A p \in Pids : (Spawned(p) /\ p \notin bot_procs) => pstate[p] = "exited"
    /\ shut => (bot_procs = {} /\ \A p \in Pids : pstate[p] # "running")

\* C4 witness: cleanup() has run and a worker that ignored the terminate
\* request was killed by it.
C4_Witness ==
    /\ shut
    /\ \E p \in Pids : returncode[p] = -9 /\ sigs[p] = <<"term", "kill">>

\* C5: idempotent termination.  The background cleanup_process(p) running
\* for a pid that is no longer registered (a second call) changes neither
\* the registry nor any process nor any signal log; and a cleanup_process
\* that removes the entry of a worker that has already exited sends it no
\* signal.
C5_IdempotentTerminate ==
    [][\A p \in Pids :
         /\ (p \in bg /\ p \notin bg' /\ p \notin bot_procs)
               => UNCHANGED <<bot_procs, sigs, pstate, returncode, closed, pipe>>
         /\ (p \in bot_procs /\ p \notin bot_procs' /\ pstate[p] = "exited")
               => (sigs'[p] = sigs[p] /\ returncode'[p] = returncode[p])
      ]_vars

\* C5 witness: the background cleanup_process of a successful start has run
\* for a worker that had exited by itself (as the first cleanup of an exited
\* worker, or as the second call after get_status cleaned it), and no signal
\* was ever sent to that worker.
C5_Witness ==
    \E p \in Pids :
        /\ resp.status = 200 /\ resp.bot_pid = p
        /\ p \notin bg /\ p \notin bot_procs
        /\ ExitedByItself(p)
        /\ sigs[p] = <<>>

\* C6: success leaves the worker running.  A worker whose start returned its
\* url stays registered and running for as long as it has not exited by
\* itself and cleanup() (shutdown) has not run.
C6_SuccessStaysRunning ==
    \A p \in Pids :
        (outcome[p] = "resolved" /\ ~shut /\ ~ExitedByItself(p))
            => StatusOf(p) = "running"

\* C7: a worker exit without result is reported as such.  The response to a
\* start whose worker exited first differs, in what the caller receives,
\* from the response to every other kind of failure.
C7_ExitIsDistinguishable ==
    resp.raised = "RuntimeError" =>
        \A k \in {"ValueError", "OSError", "TimeoutError"} :
            Visible(resp) # Visible(Response(<<>>, 0, k))

\* C8: a timeout is reported as a timeout.  The response to a start that
\* timed out has status 504.
C8_TimeoutIs504 == resp.raised = "TimeoutError" => resp.status = 504

\* C9: admission denial.  When run_bot is entered while a registered worker
\* is running (limit one), the call ends at once with a failure, spawns no
\* process and leaves the registry unchanged.
C9_AdmissionDenied ==
    [][(pc = "run_bot" /\ pc' # "run_bot" /\ RunningRegistered # {})
          => /\ pc' = "idle"
             /\ resp'.status # 200
             /\ bot_procs' = bot_procs
             /\ nextpid' = nextpid
             /\ pstate' = pstate
      ]_vars

\* C10: spawn failure registers nothing.  A start that fails before or while
\* launching the worker (run_bot returns without entering the wait loop)
\* answers with a failure and leaves the registry and every process as they
\* were.
C10_SpawnFailureRegistersNothing ==
    [][(pc = "run_bot" /\ pc' = "idle")
          => /\ resp'.status = 500
             /\ bot_procs' = bot_procs
             /\ nextpid' = nextpid
             /\ pstate' = pstate
      ]_vars

\* C10 witness: the last start failed at launch while another worker was
\* registered, and that entry is still there.
C10_Witness ==
    /\ pc = "idle"
    /\ resp.raised \in {"ValueError", "OSError"}
    /\ bot_procs # {}

\* A status query for p has just been answered.
Answered(p) == answered' # answered /\ answered'.pid = p

\* C11: a status query for a pid that is not in the registry (never
\* registered, or already cleaned up) is answered 404, and it changes neither
\* the registry nor any process.
C11_UnknownPidIs404 ==
    [][\A p \in Pids :
         (Answered(p) /\ p \notin bot_procs) =>
             /\ answered'.status = "404"
             /\ bot_procs' = bot_procs
             /\ pstate' = pstate /\ returncode' = returncode
             /\ sigs' = sigs /\ closed' = closed /\ pipe' = pipe]_vars

\* A 404 was answered for a pid that had been registered and cleaned up.
C11_Witness ==
    \E p \in Pids :
        /\ answered = [pid |-> p, status |-> "404"]
        /\ Spawned(p) /\ p \notin bot_procs

\* C12: a status query for a registered worker whose process has already
\* exited at the moment of the query is never answered "running"; it is
\* answered with the terminal status.
C12_ExitedIsNotRunning ==
    [][\A p \in Pids :
         (Answered(p) /\ p \in bot_procs /\ pstate[p] = "exited") =>
             answered'.status = "finished"]_vars

\* "finished" was answered for a child that had exited by itself.
C12_Witness ==
    \E p \in Pids :
        /\ answered = [pid |-> p, status |-> "finished"]
        /\ ExitedByItself(p)

\* C14: the statuses answered for one worker only move forward: once the
\* terminal status has been answered for a pid, no later query for that pid is
\* answered "running" (the code has no "starting" status), and a pid that is
\* answered "running" is a registered, running child.
C14_StatusMovesForward ==
    [][\A p \in Pids :
         (Answered(p) /\ answered'.status = "running") =>
             /\ p \notin finished_seen
             /\ p \in bot_procs /\ pstate[p] = "running"]_vars

\* A pid was queried again after its terminal status had been answered.
C14_Witness ==
    \E p \in finished_seen : answered = [pid |-> p, status |-> "404"]

\* u is the text that follows an occurrence of the marker in line, with the
\* whitespace around it removed.
IsTextAfterMarker(u, line) ==
    \E i \in 1..Len(line) :
        /\ line[i] = Marker
        /\ \E a \in i..Len(line), b \in i..Len(line) :
               /\ a <= b
               /\ u = SubSeq(line, a + 1, b)
               /\ \A k \in (i + 1)..a : line[k] = " "
               /\ \A k \in (b + 1)..Len(line) : line[k] = " "
               /\ u # <<>> => (u[1] # " " /\ u[Len(u)] # " ")

Occurrences(line) == Cardinality({i \in 1..Len(line) : line[i] = Marker})

\* C13: a scanner that reads a line containing the marker puts exactly one
\* value on the queue, however often the marker occurs in the line, and the
\* value is the text following the marker with the whitespace around it
\* removed; a line without the marker puts nothing.
C13_MarkerExtraction ==
    [][\A p \in Pids, s \in Streams :
         (pipe[p][s] # <<>> /\ pipe'[p][s] = Tail(pipe[p][s])) =>
             LET line == Head(pipe[p][s]) IN
             IF Occurrences(line) > 0
             THEN /\ Len(url_queue') = Len(url_queue) + 1
                  /\ SubSeq(url_queue', 1, Len(url_queue)) = url_queue
                  /\ IsTextAfterMarker(url_queue'[Len(url_queue')], line)
             ELSE url_queue' = url_queue]_vars

\* One scanner has read a line in which the marker occurs twice (the other
\* pipe still holds its copy), and one value is on the queue.
C13_Witness ==
    /\ pipe[1]["STDOUT"] = <<>>
    /\ pipe[1]["STDERR"] # <<>>
    /\ Occurrences(Head(pipe[1]["STDERR"])) = 2
    /\ Len(url_queue) = 1
    /\ url_queue[1] # <<>>

\* C15: while a start is waiting for its child's result, a status query and
\* the shutdown can be served, without waiting for the start to return.
C15_ServedDuringStart ==
    (pc = "wait" /\ ~shut) =>
        /\ \A p \in Pids : ENABLED get_status(p)
        /\ ENABLED cleanup({})

C17_MarkerBeforeExitWins ==
    [][(/\ pc = "wait" /\ ~expired
        /\ url_queue # <<>> /\ Head(url_queue) = <<ToString(cur)>>
        /\ pc' = "idle")
       => (outcome'[cur] = "resolved" /\ resp'.status = 200)]_vars

\* C18: whenever a start returns (url, pid), the url was taken from a line
\* written by the child pid, not by any other child.
C18_ResultBelongsToWorker ==
    resp.status = 200 => resp.url = <<ToString(resp.bot_pid)>>

\* The values of child p that are on the queue.
Pending(p) == {i \in 1..Len(url_queue) : url_queue[i] = <<ToString(p)>>}

\* C19: over the whole output of one child, both pipes scanned concurrently,
\* the result is completed at most once: the marker lines after the first
\* leave no further value pending, neither beside the first one nor after
\* the start has taken it.
C19_FirstMatchWins ==
    \A p \in Pids :
        /\ Cardinality(Pending(p)) <= 1
        /\ outcome[p] = "resolved" => Pending(p) = {}

\* C20: on the shutdown path and on the timeout path alike, a child is asked
\* to stop first and killed only after that, and the terminating operation
\* returns only once the child has exited and its pipes are closed.
C20_TerminationPolicy ==
    \A p \in Pids :
        /\ \A i \in 1..Len(sigs[p]) :
               sigs[p][i] = "kill" => \E j \in 1..(i - 1) : sigs[p][j] = "term"
        /\ (outcome[p] = "timeout" \/ (Spawned(p) /\ p \notin bot_procs)) =>
               (pstate[p] = "exited" /\ closed[p])

\* C21: an entry is put into the registry when its child is spawned, and it
\* is removed only at shutdown or by the cleanup that follows a status query
\* which found the child exited; the entry of a child that is still running
\* is never removed otherwise.
C21_RegistryLifecycle ==
    [][\A p \in Pids :
         /\ (pstate[p] = "unborn" /\ pstate'[p] # "unborn") => p \in bot_procs'
         /\ (p \in bot_procs /\ p \notin bot_procs') =>
                (shut' \/ pstate[p] = "exited")]_vars

\* C22: a scanner puts a value on the queue only for a line that contains
\* the marker: a pipe that ends without one, or whose reading fails because
\* it was closed, leaves the queue as it is; a start fails only by the exit
\* the wait loop observes or by its timeout.
C22_ScannerNeverFails ==
    [][/\ Len(url_queue') > Len(url_queue) =>
            \E p \in Pids, s \in Streams :
                /\ pipe[p][s] # <<>>
                /\ HasMarker(Head(pipe[p][s]))
                /\ pipe'[p][s] = Tail(pipe[p][s])
                /\ Len(url_queue') = Len(url_queue) + 1
       /\ \A p \in Pids :
            /\ (outcome[p] = "none" /\ outcome'[p] = "exit") =>
                   (pstate[p] = "exited" /\ pc = "wait")
            /\ (outcome[p] = "none" /\ outcome'[p] = "timeout") => expired]_vars

\* Both scanners of the child a start is waiting for have reached the end of
\* their pipes, after a line without the marker, and nothing is on the queue.
C22_Witness ==
    /\ pc = "wait" /\ cur = 1 /\ nextpid = 2
    /\ pstate[cur] = "exited"
    /\ written = MaxLines
    /\ \A s \in Streams : ThreadDone(cur, s)
    /\ url_queue = <<>>

C24_ShutdownRacingStart ==
    /\ [](shut => /\ pc = "idle"
                  /\ \A p \in Pids :
                        Spawned(p) => (pstate[p] = "exited" /\ p \notin bot_procs))
    /\ [][/\ (~shut /\ shut') => (outcome' = outcome /\ resp' = resp)
          /\ \A p \in Pids :
                (outcome[p] = "none" /\ outcome'[p] # "none") =>
                    /\ ~shut
                    /\ outcome'[p] = "exit" => sigs[p] = <<>>]_vars

\* The shutdown has run after a start that timed out, and has killed the
\* child the start had left running.
C24_Witness ==
    /\ shut
    /\ \E p \in Pids : outcome[p] = "timeout" /\ returncode[p] = -9

\* C25: when a start that spawned a child ends with an error response, the
\* child has exited, or a terminate request has been sent to it, or a cleanup
\* has been scheduled for it, by the time the response is produced.
C25_ErrorStopsWorker ==
    [][\A p \in Pids :
         (/\ pc \in {"wait", "except"} /\ cur = p
          /\ pc' = "idle" /\ resp'.status # 200)
         => \/ pstate'[p] = "exited"
            \/ sigs'[p] # <<>>
            \/ p \in bg']_vars

\* C26: starts are serialized: a start begins (clears the queue) only when
\* no other start is between its clearing of the queue and its return, and
\* while a start is in flight nothing but its own wait loop takes a value
\* from the queue.
C26_StartsSerialized ==
    [][/\ GetRoomUrl => pc = "idle"
       /\ (pc # "idle" /\ Len(url_queue') < Len(url_queue)) => WaitGotUrl]_vars

\* A second start is waiting, with a value on the queue, after a first one
\* has returned.
C26_Witness ==
    /\ pc = "wait" /\ cur = 2
    /\ outcome[1] # "none"
    /\ url_queue # <<>>

\* The place of the offered tool in the order of the conversation.
Rank(T) ==
    CASE T = {"verify_birthday"} -> 1
      [] T = {"list_prescriptions"} -> 2
      [] T = {"list_allergies"} -> 3
      [] T = {"list_conditions"} -> 4
      [] T = {"list_visit_reasons"} -> 5
      [] T = {} -> 6
      [] OTHER -> 0

====
